---- MODULE Spec2Model ----
(***************************************************************************)
(* Deduplication layer of ragflow/custom_parsers/dedup.py.                 *)
(*                                                                         *)
(* A text is a sequence of tokens: a token is a word, a single whitespace  *)
(* character " " or a hyphen "-".  Similarities are kept in hundredths     *)
(* (1.0 is 100, 0.95 is 95), which is exact for the signature lengths in   *)
(* NumPerms.  The metadata timestamp is left out: no code path reads it.   *)
(***************************************************************************)
EXTENDS Integers, Sequences, FiniteSets, TLC

\* ------------------------------------------------------------------ bounds
MaxOps == 3

\* ------------------------------------------------------------ helper maths
Min(a, b) == IF a < b THEN a ELSE b

RECURSIVE SetMin(_)
SetMin(S) ==
  LET x == CHOOSE y \in S : TRUE
  IN  IF S = {x} THEN x ELSE Min(x, SetMin(S \ {x}))

Range(s) == {s[i] : i \in 1..Len(s)}

\* ------------------------------------------------------------------- texts
WS == " "
HY == "-"

IsSpace(tok) == tok = WS

\* str.lower() on one token
Lower(tok) ==
  CASE tok = "The" -> "the"
    [] tok = "SMA" -> "sma"
    [] tok = "Form" -> "form"
    [] tok = "K" -> "k"
    [] OTHER -> tok

\* number of characters of one token
TokenLen(tok) ==
  CASE tok \in {WS, HY, "k", "K", "x"} -> 1
    [] tok = "10" -> 2
    [] tok \in {"the", "The", "sma", "SMA", "rsi"} -> 3
    [] tok \in {"form", "Form"} -> 4
    [] tok \in {"rises", "falls", "today"} -> 5
    [] tok \in {"simple", "moving"} -> 6
    [] tok = "average" -> 7
    [] OTHER -> 1

RECURSIVE StrLen(_)
\* len(text)
StrLen(text) ==
  IF text = <<>> THEN 0 ELSE TokenLen(Head(text)) + StrLen(Tail(text))

tShort   == <<"the", WS, "sma", WS, "rises">>
tSmaLong == <<"The", WS, "simple", WS, "moving", WS, "average", WS, "rises">>
tSmaAbbr == <<"the", WS, "SMA", WS, WS, "rises">>
tSmaMore == <<"the", WS, "sma", WS, "rises", WS, "today">>
tOther   == <<"rsi", WS, "falls", WS, "x", WS, "today">>

Texts == {tShort, tSmaLong, tSmaAbbr, tSmaMore, tOther}

\* ------------------------------------------------- CANONICAL_TERMS, re.sub
\* A pattern is a sequence of elements: <<"lit", word>> matches that word,
\* <<"ws+">> is \s+ and <<"sep?">> is [\-\s]? .
CANONICAL_TERMS ==
  << [pattern   |-> << <<"lit", "simple">>, <<"ws+">>, <<"lit", "moving">>,
                       <<"ws+">>, <<"lit", "average">> >>,
      canonical |-> <<"SMA">>],
     [pattern   |-> << <<"lit", "form">>, <<"ws+">>, <<"lit", "10">>,
                       <<"sep?">>, <<"lit", "k">> >>,
      canonical |-> <<"Form", WS, "10", HY, "K">>] >>

RECURSIVE MatchAt(_, _, _)
\* 0 when pattern pat does not match text s at position i (1-based), else
\* the position just after the match; \s+ is greedy, [\-\s]? tries one
\* character first and then none, as the regex engine does.
MatchAt(pat, s, i) ==
  IF pat = <<>> THEN i
  ELSE LET e == Head(pat) IN
    IF e[1] = "lit"
    THEN IF i <= Len(s) /\ s[i] = e[2] THEN MatchAt(Tail(pat), s, i + 1) ELSE 0
    ELSE IF e[1] = "ws+"
    THEN IF i <= Len(s) /\ IsSpace(s[i])
         THEN IF i + 1 <= Len(s) /\ IsSpace(s[i + 1])
              THEN MatchAt(pat, s, i + 1)
              ELSE MatchAt(Tail(pat), s, i + 1)
         ELSE 0
    ELSE \* "sep?"
         LET one == IF i <= Len(s) /\ (IsSpace(s[i]) \/ s[i] = HY)
                    THEN MatchAt(Tail(pat), s, i + 1) ELSE 0
         IN  IF one # 0 THEN one ELSE MatchAt(Tail(pat), s, i)

RECURSIVE SubFrom(_, _, _, _)
\* re.sub(pattern, repl, s): leftmost non-overlapping matches from i on
SubFrom(pat, repl, s, i) ==
  IF i > Len(s) THEN <<>>
  ELSE LET j == MatchAt(pat, s, i) IN
       IF j # 0 THEN repl \o SubFrom(pat, repl, s, j)
       ELSE <<s[i]>> \o SubFrom(pat, repl, s, i + 1)

ReSub(pat, repl, s) == SubFrom(pat, repl, s, 1)

LowerAll(s) == [i \in 1..Len(s) |-> Lower(s[i])]

RECURSIVE ApplyTerms(_, _)
ApplyTerms(terms, s) ==
  IF terms = <<>> THEN s
  ELSE ApplyTerms(Tail(terms),
                  ReSub(Head(terms).pattern, LowerAll(Head(terms).canonical), s))

RECURSIVE CollapseSpace(_)
\* re.sub(r'\s+', ' ', s)
CollapseSpace(s) ==
  IF s = <<>> THEN <<>>
  ELSE IF IsSpace(Head(s))
       THEN IF Len(s) > 1 /\ IsSpace(s[2])
            THEN CollapseSpace(Tail(s))
            ELSE <<WS>> \o CollapseSpace(Tail(s))
       ELSE <<Head(s)>> \o CollapseSpace(Tail(s))

RECURSIVE LStrip(_)
LStrip(s) == IF s # <<>> /\ IsSpace(Head(s)) THEN LStrip(Tail(s)) ELSE s

RECURSIVE RStrip(_)
RStrip(s) ==
  IF s # <<>> /\ IsSpace(s[Len(s)]) THEN RStrip(SubSeq(s, 1, Len(s) - 1)) ELSE s

Strip(s) == RStrip(LStrip(s))

normalize_text(text) == Strip(CollapseSpace(ApplyTerms(CANONICAL_TERMS, LowerAll(text))))

\* ---------------------------------------------------------- extract_shingles
RECURSIVE Split(_)
\* str.split(): the maximal runs of non-whitespace, each a token sequence
Split(s) ==
  LET t == LStrip(s) IN
  IF t = <<>> THEN <<>>
  ELSE LET n == IF \E i \in 1..Len(t) : IsSpace(t[i])
                THEN (CHOOSE i \in 1..Len(t) :
                        IsSpace(t[i]) /\ \A j \in 1..(i - 1) : ~IsSpace(t[j])) - 1
                ELSE Len(t)
       IN  <<SubSeq(t, 1, n)>> \o Split(SubSeq(t, n + 1, Len(t)))

RECURSIVE Join(_)
\* ' '.join(words)
Join(words) ==
  IF words = <<>> THEN <<>>
  ELSE IF Len(words) = 1 THEN words[1]
  ELSE words[1] \o <<WS>> \o Join(Tail(words))

ShingleSize == 3

extract_shingles(text) ==
  LET words == Split(text)
      k     == ShingleSize
  IN  IF Len(words) < k THEN {text}
      ELSE {Join(SubSeq(words, i, i + k - 1)) : i \in 1..(Len(words) - k + 1)}

\* ------------------------------------------------------------------ MinHash
\* datasketch.MinHash: hashvalues[i] is the minimum over the updates of
\* (a_i * hv + b_i) mod prime, hv the hash of the updated bytes; the first n
\* permutations of a longer signature are those of a signature of length n.
TokenCode(tok) ==
  CASE tok = "the" -> 1 [] tok = "sma" -> 2 [] tok = "rises" -> 3
    [] tok = "today" -> 4 [] tok = "rsi" -> 5 [] tok = "falls" -> 6
    [] tok = "x" -> 7 [] tok = WS -> 8 [] tok = HY -> 9
    [] tok = "form" -> 10 [] tok = "10" -> 11 [] tok = "k" -> 12
    [] OTHER -> 13

HashPrime == 31

RECURSIVE HashFrom(_, _)
HashFrom(h, s) ==
  IF s = <<>> THEN h
  ELSE HashFrom((h * 7 + TokenCode(Head(s))) % HashPrime, Tail(s))

\* hash of shingle.encode('utf-8')
ShingleHash(s) == HashFrom(0, s)

HashPermutations == << <<21, 17>>, <<1, 30>>, <<29, 12>>, <<22, 6>> >>

MinHashOf(shingles, num_perm) ==
  [i \in 1..num_perm |->
     SetMin({(HashPermutations[i][1] * ShingleHash(sh) + HashPermutations[i][2]) % HashPrime
               : sh \in shingles})]

\* MinHashDeduplicator._compute_minhash
compute_minhash(text, num_perm) ==
  MinHashOf(extract_shingles(normalize_text(text)), num_perm)

NumPerms == {2, 4}

\* len(text), normalize_text(text) and the signatures of the model's texts,
\* computed once
LenOf == [t \in Texts |-> StrLen(t)]
NormOf == [t \in Texts |-> normalize_text(t)]
ShinglesOf == [t \in Texts |-> extract_shingles(normalize_text(t))]
SigOf == [t \in Texts |-> [n \in NumPerms |-> compute_minhash(t, n)]]

\* MinHash.jaccard in hundredths; defined when the lengths agree
Jaccard(m1, m2) ==
  (100 * Cardinality({i \in 1..Len(m1) : m1[i] = m2[i]})) \div Len(m1)

\* --------------------------------------------------------------- MinHashLSH
\* (b, r) chosen by MinHashLSH(threshold, num_perm) with the default weights
OptimalParam(threshold, num_perm) ==
  CASE threshold = 0 -> <<num_perm, 1>>
    [] threshold = 60 /\ num_perm = 4 -> <<2, 2>>
    [] OTHER -> <<1, num_perm>>

NewLSH(threshold, num_perm) ==
  LET p == OptimalParam(threshold, num_perm) IN
  [h |-> num_perm, b |-> p[1], r |-> p[2],
   keys |-> <<>>,
   hashtables |-> [i \in 1..p[1] |-> <<>>]]

\* the band slices of a signature, one per hash range
BandsOf(l, mh) == [i \in 1..l.b |-> SubSeq(mh, (i - 1) * l.r + 1, i * l.r)]

\* lsh.insert raises ValueError on a signature of another length and on a
\* key that is already present
LshInsertRaises(l, key, mh) == Len(mh) # l.h \/ key \in DOMAIN l.keys

LshInsert(l, key, mh) ==
  LET Hs == BandsOf(l, mh) IN
  [l EXCEPT
     !.keys = (key :> Hs) @@ @,
     !.hashtables = [i \in 1..l.b |->
        IF Hs[i] \in DOMAIN @[i]
        THEN [@[i] EXCEPT ![Hs[i]] = @ \cup {key}]
        ELSE (Hs[i] :> {key}) @@ @[i]]]

\* lsh.remove raises ValueError on a key that is not present
LshRemoveRaises(l, key) == key \notin DOMAIN l.keys

LshRemove(l, key) ==
  LET Hs == l.keys[key] IN
  [l EXCEPT
     !.keys = [k \in (DOMAIN @) \ {key} |-> @[k]],
     !.hashtables = [i \in 1..l.b |->
        IF Hs[i] \in DOMAIN @[i]
        THEN IF @[i][Hs[i]] \ {key} = {}
             THEN [H \in (DOMAIN @[i]) \ {Hs[i]} |-> @[i][H]]
             ELSE [@[i] EXCEPT ![Hs[i]] = @ \ {key}]
        ELSE @[i]]]

LshQueryRaises(l, mh) == Len(mh) # l.h

\* lsh.query: the union of the buckets the query's band slices select
LshQuery(l, mh) ==
  LET Hs == BandsOf(l, mh) IN
  UNION {IF Hs[i] \in DOMAIN l.hashtables[i] THEN l.hashtables[i][Hs[i]] ELSE {}
           : i \in 1..l.b}

\* ------------------------------------------------------ Python dict, ordered
DictKeys(d) == {d[i].k : i \in 1..Len(d)}
DictHas(d, key) == key \in DictKeys(d)
DictGet(d, key) == d[CHOOSE i \in 1..Len(d) : d[i].k = key].v
DictSet(d, key, val) ==
  IF DictHas(d, key)
  THEN [i \in 1..Len(d) |-> IF d[i].k = key THEN [k |-> key, v |-> val] ELSE d[i]]
  ELSE Append(d, [k |-> key, v |-> val])
DictDel(d, key) == SelectSeq(d, LAMBDA e : e.k # key)

\* ------------------------------------------------------------- configuration
DocIds == {"d1", "d2"}
Sources == {"sec"}
Thresholds == {0, 60}
MinTextLengths == {14}

\* DedupConfig: the fields the engine reads
Configs ==
  [similarity_threshold : Thresholds, num_perm : NumPerms,
   min_text_length : MinTextLengths]

None == "None"

\* DedupResult(is_duplicate=False, action="ingest")
IngestResult ==
  [is_duplicate |-> FALSE, similarity_score |-> 0, matched_id |-> None,
   matched_source |-> None, action |-> "ingest"]

\* the value of a call that returned no DedupResult
NoResult ==
  [is_duplicate |-> FALSE, similarity_score |-> 0, matched_id |-> None,
   matched_source |-> None, action |-> "none"]

Returned(res) == [raised |-> FALSE, result |-> res]
Raised == [raised |-> TRUE, result |-> NoResult]

NoSnapshot == [present |-> FALSE, minhashes |-> <<>>, metadata |-> <<>>]
NoFile == [present |-> FALSE, exact |-> <<>>, normalized |-> <<>>]
NoSaves == [redis |-> "none", disk |-> "none"]

\* the threads that share the process-wide engine
Threads == {"t1", "t2"}

\* a thread outside check_and_add
IdleCaller ==
  [pc |-> "idle", text |-> <<>>, doc_id |-> None, source |-> "",
   raised |-> FALSE, result |-> NoResult]

\* no deduplicate_chunks call made yet
NoChunking == [pending |-> <<>>, i |-> 0, source |-> "", filtered |-> <<>>, returned |-> <<>>]

VARIABLES
  HAS_DATASKETCH,     \* the datasketch import succeeded
  HAS_REDIS,          \* the redis import succeeded
  config,             \* Deduplicator.config
  lsh,                \* MinHashDeduplicator.lsh
  minhashes,          \* MinHashDeduplicator.minhashes, in insertion order
  metadata,           \* MinHashDeduplicator.metadata
  exact_hashes,       \* SimpleDeduplicator.exact_hashes
  normalized_hashes,  \* SimpleDeduplicator.normalized_hashes
  redis_store,        \* the value under 'ragflow:dedup:index'
  disk_minhash,       \* the file <local_storage_path>_minhash.pkl
  disk_simple,        \* the file local_storage_path
  last,               \* the last call on the facade and what it returned
  live,               \* history: doc_id -> the text of its latest add to this
                      \* engine, until the id is removed
  passed,             \* history: the texts handed to add or check_and_add of
                      \* this engine
  nops,               \* calls made so far
  added,              \* history: the adds that stored into this engine's
                      \* index, oldest first
  callers,            \* the threads inside check_and_add on the shared engine
  chunking            \* deduplicate_chunks: the list being filtered, the loop
                      \* position, and the chunks returned so far

indexVars == <<lsh, minhashes, metadata, exact_hashes, normalized_hashes>>
storeVars == <<redis_store, disk_minhash, disk_simple>>
envVars == <<HAS_DATASKETCH, HAS_REDIS>>
vars == <<HAS_DATASKETCH, HAS_REDIS, config, lsh, minhashes, metadata,
          exact_hashes, normalized_hashes, redis_store, disk_minhash,
          disk_simple, last, live, passed, nops, added, callers, chunking>>

\* ------------------------------------------------------- SimpleDeduplicator
\* SimpleDeduplicator._compute_hash: sha256 taken as collision free
compute_hash(text) == [sha256 |-> text]

\* a check that looks up the normalized hash before the exact one: the fault
\* the order of the two lookups excludes
SimpleCheckNormalizedFirst(text, doc_id, source) ==
  IF LenOf[text] < config.min_text_length THEN {Returned(IngestResult)}
  ELSE IF compute_hash(NormOf[text]) \in DOMAIN normalized_hashes
  THEN {Returned([is_duplicate |-> TRUE, similarity_score |-> 95,
                  matched_id |-> normalized_hashes[compute_hash(NormOf[text])],
                  matched_source |-> None, action |-> "reference"])}
  ELSE IF compute_hash(text) \in DOMAIN exact_hashes
  THEN {Returned([is_duplicate |-> TRUE, similarity_score |-> 100,
                  matched_id |-> exact_hashes[compute_hash(text)],
                  matched_source |-> None, action |-> "skip"])}
  ELSE {Returned(IngestResult)}

\* SimpleDeduplicator.check
SimpleCheck(text, doc_id, source) ==
  IF LenOf[text] < config.min_text_length THEN {Returned(IngestResult)}
  ELSE IF compute_hash(text) \in DOMAIN exact_hashes
  THEN {Returned([is_duplicate |-> TRUE, similarity_score |-> 100,
                  matched_id |-> exact_hashes[compute_hash(text)],
                  matched_source |-> None, action |-> "skip"])}
  ELSE IF compute_hash(NormOf[text]) \in DOMAIN normalized_hashes
  THEN {Returned([is_duplicate |-> TRUE, similarity_score |-> 95,
                  matched_id |-> normalized_hashes[compute_hash(NormOf[text])],
                  matched_source |-> None, action |-> "reference"])}
  ELSE {Returned(IngestResult)}

\* SimpleDeduplicator._save_index
SimpleSave(exact, normalized, diskOk) ==
  /\ disk_simple' = IF diskOk
                    THEN [present |-> TRUE, exact |-> exact, normalized |-> normalized]
                    ELSE disk_simple
  /\ UNCHANGED <<redis_store, disk_minhash>>

SimpleSaveLog(diskOk) == [redis |-> "none", disk |-> IF diskOk THEN "ok" ELSE "fail"]

SimpleAddSaves(text) == LenOf[text] >= config.min_text_length

SimpleAdd(text, doc_id, source, diskOk) ==
  IF LenOf[text] < config.min_text_length
  THEN UNCHANGED <<indexVars, storeVars>>
  ELSE LET exact == (compute_hash(text) :> doc_id) @@ exact_hashes
           normalized == (compute_hash(NormOf[text]) :> doc_id) @@ normalized_hashes
       IN  /\ exact_hashes' = exact
           /\ normalized_hashes' = normalized
           /\ UNCHANGED <<lsh, minhashes, metadata>>
           /\ SimpleSave(exact, normalized, diskOk)

\* SimpleDeduplicator.__init__ and _load_index
SimpleLoad(diskOk) ==
  IF disk_simple.present /\ diskOk
  THEN [exact |-> disk_simple.exact, normalized |-> disk_simple.normalized]
  ELSE [exact |-> <<>>, normalized |-> <<>>]

\* ------------------------------------------------------ MinHashDeduplicator
SkipCutoff == 95

\* the orders in which list(candidates) can enumerate a set
Orders(S) == {o \in [1..Cardinality(S) -> S] : Range(o) = S}

\* Python truth value of best_match (None and '' are false)
Truthy(x) == x # None /\ x # ""

RECURSIVE BestOver(_, _, _, _)
\* the loop "for match_id in matches" of check: the first strictly greater
\* score wins; jaccard raises ValueError on signatures of different lengths
BestOver(order, minhash, best_match, best_score) ==
  IF order = <<>>
  THEN [raised |-> FALSE, best_match |-> best_match, best_score |-> best_score]
  ELSE LET match_id == Head(order) IN
       IF DictHas(minhashes, match_id)
       THEN IF Len(DictGet(minhashes, match_id)) # Len(minhash)
            THEN [raised |-> TRUE, best_match |-> best_match, best_score |-> best_score]
            ELSE LET score == Jaccard(minhash, DictGet(minhashes, match_id)) IN
                 IF score > best_score
                 THEN BestOver(Tail(order), minhash, match_id, score)
                 ELSE BestOver(Tail(order), minhash, best_match, best_score)
       ELSE BestOver(Tail(order), minhash, best_match, best_score)

\* a decision that recommends 'skip' for every duplicate, whatever its
\* score: the fault the skip cutoff excludes
DecideAlwaysSkip(best) ==
  IF best.raised THEN Raised
  ELSE IF Truthy(best.best_match) /\ best.best_score >= config.similarity_threshold
  THEN Returned([is_duplicate |-> TRUE,
                 similarity_score |-> best.best_score,
                 matched_id |-> best.best_match,
                 matched_source |-> IF best.best_match \in DOMAIN metadata
                                    THEN metadata[best.best_match].source ELSE "",
                 action |-> "skip"])
  ELSE Returned(IngestResult)

\* the decision of check once the best match is known
Decide(best) ==
  IF best.raised THEN Raised
  ELSE IF Truthy(best.best_match) /\ best.best_score >= config.similarity_threshold
  THEN Returned([is_duplicate |-> TRUE,
                 similarity_score |-> best.best_score,
                 matched_id |-> best.best_match,
                 matched_source |-> IF best.best_match \in DOMAIN metadata
                                    THEN metadata[best.best_match].source ELSE "",
                 action |-> IF best.best_score > SkipCutoff THEN "skip" ELSE "reference"])
  ELSE Returned(IngestResult)

\* a check that queries the index whatever the length of the text: the fault
\* the short-text bypass excludes
MinHashCheckUnguarded(text, doc_id, source) ==
  LET minhash == SigOf[text][config.num_perm] IN
  IF LshQueryRaises(lsh, minhash) THEN {Raised}
  ELSE LET matches == LshQuery(lsh, minhash) IN
       IF matches = {} THEN {Returned(IngestResult)}
       ELSE {Decide(BestOver(order, minhash, None, 0)) : order \in Orders(matches)}

\* MinHashDeduplicator.check: the outcomes over the candidate orders
MinHashCheck(text, doc_id, source) ==
  IF LenOf[text] < config.min_text_length THEN {Returned(IngestResult)}
  ELSE LET minhash == SigOf[text][config.num_perm] IN
       IF LshQueryRaises(lsh, minhash) THEN {Raised}
       ELSE LET matches == LshQuery(lsh, minhash) IN
            IF matches = {} THEN {Returned(IngestResult)}
            ELSE {Decide(BestOver(order, minhash, None, 0)) : order \in Orders(matches)}

\* MinHashDeduplicator._save_index
MinHashSave(mhs, meta, redisOk, diskOk) ==
  LET data == [present |-> TRUE, minhashes |-> mhs, metadata |-> meta] IN
  /\ redis_store' = IF HAS_REDIS /\ redisOk THEN data ELSE redis_store
  /\ disk_minhash' = IF (~HAS_REDIS \/ ~redisOk) /\ diskOk THEN data ELSE disk_minhash
  /\ UNCHANGED disk_simple

MinHashSaveLog(redisOk, diskOk) ==
  [redis |-> IF ~HAS_REDIS THEN "none" ELSE IF redisOk THEN "ok" ELSE "fail",
   disk  |-> IF HAS_REDIS /\ redisOk THEN "none" ELSE IF diskOk THEN "ok" ELSE "fail"]

MetaOf(text, source) == [source |-> source, text_preview |-> SubSeq(text, 1, Min(Len(text), 100))]

\* MinHashDeduplicator.add
MinHashAdd(text, doc_id, source, redisOk, diskOk) ==
  IF LenOf[text] < config.min_text_length
  THEN UNCHANGED <<indexVars, storeVars>>
  ELSE LET minhash == SigOf[text][config.num_perm]
           mhs == DictSet(minhashes, doc_id, minhash)
           meta == (doc_id :> MetaOf(text, source)) @@ metadata
       IN  /\ lsh' = IF LshInsertRaises(lsh, doc_id, minhash)
                     THEN lsh ELSE LshInsert(lsh, doc_id, minhash)
           /\ minhashes' = mhs
           /\ metadata' = meta
           /\ UNCHANGED <<exact_hashes, normalized_hashes>>
           /\ MinHashSave(mhs, meta, redisOk, diskOk)

\* lsh.remove raises ValueError, which remove does not catch
MinHashRemoveRaises(doc_id) ==
  DictHas(minhashes, doc_id) /\ LshRemoveRaises(lsh, doc_id)

MinHashRemoveSaves(doc_id) ==
  DictHas(minhashes, doc_id) /\ ~LshRemoveRaises(lsh, doc_id)

\* a remove without "if doc_id in self.minhashes": it drops what it finds and
\* saves in every case, the fault the no-op on an absent id excludes
MinHashRemoveUnguarded(doc_id, redisOk, diskOk) ==
  LET mhs == IF DictHas(minhashes, doc_id) THEN DictDel(minhashes, doc_id)
             ELSE minhashes
      meta == [k \in (DOMAIN metadata) \ {doc_id} |-> metadata[k]]
  IN  /\ lsh' = IF LshRemoveRaises(lsh, doc_id) THEN lsh ELSE LshRemove(lsh, doc_id)
      /\ minhashes' = mhs
      /\ metadata' = meta
      /\ UNCHANGED <<exact_hashes, normalized_hashes>>
      /\ MinHashSave(mhs, meta, redisOk, diskOk)

\* MinHashDeduplicator.remove
MinHashRemove(doc_id, redisOk, diskOk) ==
  IF MinHashRemoveSaves(doc_id)
  THEN LET mhs == DictDel(minhashes, doc_id)
           meta == [k \in (DOMAIN metadata) \ {doc_id} |-> metadata[k]]
       IN  /\ lsh' = LshRemove(lsh, doc_id)
           /\ minhashes' = mhs
           /\ metadata' = meta
           /\ UNCHANGED <<exact_hashes, normalized_hashes>>
           /\ MinHashSave(mhs, meta, redisOk, diskOk)
  ELSE UNCHANGED <<indexVars, storeVars>>

RECURSIVE Rebuild(_, _)
\* "for doc_id, mh in self.minhashes.items(): self.lsh.insert(doc_id, mh)":
\* the loop stops at the first insert that raises
Rebuild(l, items) ==
  IF items = <<>> THEN [lsh |-> l, raised |-> FALSE]
  ELSE IF LshInsertRaises(l, Head(items).k, Head(items).v)
       THEN [lsh |-> l, raised |-> TRUE]
       ELSE Rebuild(LshInsert(l, Head(items).k, Head(items).v), Tail(items))

\* the disk half of _load_index, entered with the engine e
LoadDisk(e, diskOk) ==
  IF disk_minhash.present /\ diskOk
  THEN [lsh |-> Rebuild(e.lsh, disk_minhash.minhashes).lsh,
        minhashes |-> disk_minhash.minhashes,
        metadata |-> disk_minhash.metadata]
  ELSE e

\* MinHashDeduplicator.__init__ and _load_index
MinHashLoad(cfg, redisOk, diskOk) ==
  LET e0 == [lsh |-> NewLSH(cfg.similarity_threshold, cfg.num_perm),
             minhashes |-> <<>>, metadata |-> <<>>]
  IN  IF HAS_REDIS
      THEN IF ~redisOk THEN LoadDisk(e0, diskOk)
           ELSE IF ~redis_store.present THEN e0
           ELSE LET rb == Rebuild(e0.lsh, redis_store.minhashes)
                    e1 == [lsh |-> rb.lsh,
                           minhashes |-> redis_store.minhashes,
                           metadata |-> redis_store.metadata]
                IN  IF rb.raised THEN LoadDisk(e1, diskOk) ELSE e1
      ELSE LoadDisk(e0, diskOk)

\* ------------------------------------------------------------- Deduplicator
Call(op, text, doc_id, outcome, saves, load_failed) ==
  [op |-> op, text |-> text, doc_id |-> doc_id, raised |-> outcome.raised,
   result |-> outcome.result, saves |-> saves, load_failed |-> load_failed]

\* Deduplicator.check: the outcomes the call can have in the current state
CheckOutcomes(text, doc_id, source) ==
  IF HAS_DATASKETCH THEN MinHashCheck(text, doc_id, source)
  ELSE SimpleCheck(text, doc_id, source)

\* Deduplicator.add, as a state change
AddEffect(text, doc_id, source, redisOk, diskOk) ==
  IF HAS_DATASKETCH THEN MinHashAdd(text, doc_id, source, redisOk, diskOk)
  ELSE SimpleAdd(text, doc_id, source, diskOk)

\* the writes add attempts
AddSaves(text, redisOk, diskOk) ==
  IF LenOf[text] < config.min_text_length THEN NoSaves
  ELSE IF HAS_DATASKETCH THEN MinHashSaveLog(redisOk, diskOk)
  ELSE SimpleSaveLog(diskOk)

LiveAfterAdd(text, doc_id) ==
  IF LenOf[text] < config.min_text_length THEN live ELSE (doc_id :> text) @@ live

AddedAfterAdd(text, doc_id) ==
  IF LenOf[text] < config.min_text_length THEN added
  ELSE Append(added, [text |-> text, doc_id |-> doc_id])

\* _load_index ended in an exception handler with no source loaded to the
\* end: the last source it tried raised
LoadFailed(cfg, redisOk, diskOk) ==
  IF HAS_DATASKETCH
  THEN LET fresh == NewLSH(cfg.similarity_threshold, cfg.num_perm)
           redisRebuilt == Rebuild(fresh, redis_store.minhashes)
           redisRaised ==
             HAS_REDIS /\ (~redisOk \/ (redis_store.present /\ redisRebuilt.raised))
           diskTried == ~HAS_REDIS \/ redisRaised
           before == IF HAS_REDIS /\ redisOk /\ redis_store.present
                     THEN redisRebuilt.lsh ELSE fresh
           diskRaised ==
             /\ disk_minhash.present
             /\ ~diskOk \/ Rebuild(before, disk_minhash.minhashes).raised
       IN  \/ redisRaised /\ ~disk_minhash.present
           \/ diskTried /\ diskRaised
  ELSE disk_simple.present /\ ~diskOk

\* Deduplicator.__init__: select the backend, build it, load the index
Construct(cfg, redisOk, diskOk) ==
  /\ config' = cfg
  /\ IF HAS_DATASKETCH
     THEN LET e == MinHashLoad(cfg, redisOk, diskOk) IN
          /\ lsh' = e.lsh
          /\ minhashes' = e.minhashes
          /\ metadata' = e.metadata
          /\ exact_hashes' = <<>>
          /\ normalized_hashes' = <<>>
     ELSE LET e == SimpleLoad(diskOk) IN
          /\ lsh' = NewLSH(cfg.similarity_threshold, cfg.num_perm)
          /\ minhashes' = <<>>
          /\ metadata' = <<>>
          /\ exact_hashes' = e.exact
          /\ normalized_hashes' = e.normalized
  /\ live' = <<>>
  /\ passed' = {}
  /\ added' = <<>>
  /\ UNCHANGED <<storeVars, envVars>>

\* a new process constructs the engine over the stores the last one left
RestartWithin(limit) ==
  /\ nops < limit
  /\ \E cfg \in Configs, redisOk \in BOOLEAN, diskOk \in BOOLEAN :
       /\ Construct(cfg, redisOk, diskOk)
       /\ last' = Call("construct", <<>>, None, Returned(NoResult), NoSaves,
                       LoadFailed(cfg, redisOk, diskOk))
  /\ nops' = nops + 1
  /\ UNCHANGED <<callers, chunking>>

Restart == RestartWithin(MaxOps)

\* Deduplicator.check called with one of texts
CheckOf(texts, limit) ==
  /\ nops < limit
  /\ \E text \in texts, doc_id \in DocIds, source \in Sources :
       \E outcome \in CheckOutcomes(text, doc_id, source) :
         last' = Call("check", text, doc_id, outcome, NoSaves, FALSE)
  /\ nops' = nops + 1
  /\ UNCHANGED <<config, indexVars, storeVars, envVars, live, passed, added,
                 callers, chunking>>

Check == CheckOf(Texts, MaxOps)

\* Deduplicator.add called with one of texts
AddOf(texts, limit) ==
  /\ nops < limit
  /\ \E text \in texts, doc_id \in DocIds, source \in Sources,
        redisOk \in BOOLEAN, diskOk \in BOOLEAN :
       /\ AddEffect(text, doc_id, source, redisOk, diskOk)
       /\ last' = Call("add", text, doc_id, Returned(NoResult),
                       AddSaves(text, redisOk, diskOk), FALSE)
       /\ live' = LiveAfterAdd(text, doc_id)
       /\ added' = AddedAfterAdd(text, doc_id)
       /\ passed' = passed \cup {text}
  /\ nops' = nops + 1
  /\ UNCHANGED <<config, envVars, callers, chunking>>

Add == AddOf(Texts, MaxOps)

\* a check_and_add that keeps out 'skip' results only: the fault the frame
\* of check_and_add excludes
ShouldAddUnlessSkip(outcome) == ~outcome.raised /\ outcome.result.action # "skip"

\* "if not result.is_duplicate" of check_and_add; a check that raised
\* leaves check_and_add at once
ShouldAdd(outcome) == ~outcome.raised /\ ~outcome.result.is_duplicate

\* Deduplicator.check_and_add
CheckAndAdd ==
  /\ nops < MaxOps
  /\ \E text \in Texts, doc_id \in DocIds, source \in Sources,
        redisOk \in BOOLEAN, diskOk \in BOOLEAN :
       \E outcome \in CheckOutcomes(text, doc_id, source) :
         /\ IF ShouldAdd(outcome)
            THEN /\ AddEffect(text, doc_id, source, redisOk, diskOk)
                 /\ last' = Call("check_and_add", text, doc_id, outcome,
                                 AddSaves(text, redisOk, diskOk), FALSE)
                 /\ live' = LiveAfterAdd(text, doc_id)
                 /\ added' = AddedAfterAdd(text, doc_id)
            ELSE /\ UNCHANGED <<indexVars, storeVars, live, added>>
                 /\ last' = Call("check_and_add", text, doc_id, outcome, NoSaves, FALSE)
         /\ passed' = passed \cup {text}
  /\ nops' = nops + 1
  /\ UNCHANGED <<config, envVars, callers, chunking>>

\* Deduplicator.remove: the fallback backend has no remove method
RemoveWithin(limit) ==
  /\ nops < limit
  /\ \E doc_id \in DocIds, redisOk \in BOOLEAN, diskOk \in BOOLEAN :
       IF HAS_DATASKETCH
       THEN /\ MinHashRemove(doc_id, redisOk, diskOk)
            /\ last' = Call("remove", <<>>, doc_id,
                            IF MinHashRemoveRaises(doc_id) THEN Raised
                            ELSE Returned(NoResult),
                            IF MinHashRemoveSaves(doc_id)
                            THEN MinHashSaveLog(redisOk, diskOk) ELSE NoSaves,
                            FALSE)
            /\ live' = IF MinHashRemoveSaves(doc_id)
                       THEN [k \in (DOMAIN live) \ {doc_id} |-> live[k]] ELSE live
       ELSE /\ UNCHANGED <<indexVars, storeVars, live>>
            /\ last' = Call("remove", <<>>, doc_id, Returned(NoResult), NoSaves, FALSE)
  /\ nops' = nops + 1
  /\ UNCHANGED <<config, envVars, passed, added, callers, chunking>>

Remove == RemoveWithin(MaxOps)

\* the first engine of a process, constructed over empty stores
Init ==
  /\ HAS_DATASKETCH \in BOOLEAN
  /\ HAS_REDIS \in BOOLEAN
  /\ config \in Configs
  /\ lsh = NewLSH(config.similarity_threshold, config.num_perm)
  /\ minhashes = <<>>
  /\ metadata = <<>>
  /\ exact_hashes = <<>>
  /\ normalized_hashes = <<>>
  /\ redis_store = NoSnapshot
  /\ disk_minhash = NoSnapshot
  /\ disk_simple = NoFile
  /\ last = Call("construct", <<>>, None, Returned(NoResult), NoSaves, FALSE)
  /\ live = <<>>
  /\ passed = {}
  /\ nops = 0
  /\ added = <<>>
  /\ callers = [c \in Threads |-> IdleCaller]
  /\ chunking = NoChunking

Next == Restart \/ Check \/ Add \/ CheckAndAdd \/ Remove

Spec == Init /\ [][Next]_vars

\* ---------------------------------------------- threads on the shared engine
\* check_and_add holds no lock: a thread runs "result = self.check(...)", and
\* any other thread can run before it goes on to "if not result.is_duplicate".
ThreadCheck(c) ==
  /\ callers[c].pc = "idle"
  /\ \E text \in Texts, doc_id \in DocIds, source \in Sources :
       \E outcome \in CheckOutcomes(text, doc_id, source) :
         callers' = [callers EXCEPT ![c] =
                       [pc |-> IF outcome.raised THEN "returned" ELSE "checked",
                        text |-> text, doc_id |-> doc_id, source |-> source,
                        raised |-> outcome.raised, result |-> outcome.result]]
  /\ UNCHANGED <<config, indexVars, storeVars, envVars, last, live, passed,
                 nops, added, chunking>>

\* the rest of check_and_add in thread c: add when the result it holds is
\* not a duplicate, then return that result
ThreadAdd(c) ==
  /\ callers[c].pc = "checked"
  /\ LET me == callers[c] IN
     \E redisOk \in BOOLEAN, diskOk \in BOOLEAN :
       /\ IF ShouldAdd(me)
          THEN /\ AddEffect(me.text, me.doc_id, me.source, redisOk, diskOk)
               /\ last' = Call("check_and_add", me.text, me.doc_id, me,
                               AddSaves(me.text, redisOk, diskOk), FALSE)
               /\ live' = LiveAfterAdd(me.text, me.doc_id)
               /\ added' = AddedAfterAdd(me.text, me.doc_id)
          ELSE /\ UNCHANGED <<indexVars, storeVars, live, added>>
               /\ last' = Call("check_and_add", me.text, me.doc_id, me, NoSaves, FALSE)
       /\ passed' = passed \cup {me.text}
  /\ callers' = [callers EXCEPT ![c].pc = "returned"]
  /\ UNCHANGED <<config, envVars, nops, chunking>>

NextThreads == \E c \in Threads : ThreadCheck(c) \/ ThreadAdd(c)

SpecThreads == Init /\ [][NextThreads]_vars

\* ------------------------------------- one text through a chain of processes
\* Processes with datasketch and redis importable that add and check one
\* text, each constructed over the stores the last one left.
MaxReloadOps == 6

ReloadTexts == {tSmaLong}

InitReload == Init /\ HAS_DATASKETCH /\ HAS_REDIS

ReloadRestart == RestartWithin(MaxReloadOps)
ReloadAdd == AddOf(ReloadTexts, MaxReloadOps)
ReloadCheck == CheckOf(ReloadTexts, MaxReloadOps)

NextReload == ReloadRestart \/ ReloadAdd \/ ReloadCheck

SpecReload == InitReload /\ [][NextReload]_vars

\* ------------------------------------------------------------- normalize_text
MaxTokens == 6

\* the tokens of the inputs: a form name in capitals, spaces and hyphens
NormTokens == {"Form", "10", "K", WS, HY}

NormInputs == UNION {[1..n -> NormTokens] : n \in 1..MaxTokens}

\* a caller holds a text x and no call of normalize_text was made
InitNormalize ==
  /\ HAS_DATASKETCH = FALSE
  /\ HAS_REDIS = FALSE
  /\ config = [similarity_threshold |-> 60, num_perm |-> 4, min_text_length |-> 14]
  /\ lsh = NewLSH(config.similarity_threshold, config.num_perm)
  /\ minhashes = <<>> /\ metadata = <<>>
  /\ exact_hashes = <<>> /\ normalized_hashes = <<>>
  /\ redis_store = NoSnapshot /\ disk_minhash = NoSnapshot /\ disk_simple = NoFile
  /\ \E x \in NormInputs :
       last = Call("input", x, None, Returned(<<>>), NoSaves, FALSE)
  /\ live = <<>> /\ passed = {} /\ nops = 0 /\ added = <<>>
  /\ callers = [c \in Threads |-> IdleCaller]
  /\ chunking = NoChunking

\* normalize_text(x)
Normalize ==
  /\ last.op = "input"
  /\ last' = Call("normalize_text", last.text, None,
                  Returned(normalize_text(last.text)), NoSaves, FALSE)
  /\ UNCHANGED <<config, indexVars, storeVars, envVars, live, passed, nops,
                 added, callers, chunking>>

\* normalize_text applied to the value the last call returned
NormalizeAgain ==
  /\ last.op = "normalize_text"
  /\ last' = Call("normalize_again", last.result, None,
                  Returned(normalize_text(last.result)), NoSaves, FALSE)
  /\ UNCHANGED <<config, indexVars, storeVars, envVars, live, passed, nops,
                 added, callers, chunking>>

NextNormalize == Normalize \/ NormalizeAgain

SpecNormalize == InitNormalize /\ [][NextNormalize]_vars

\* ------------------------------------------------------------------ get_stats
MaxStatsOps == 3

\* MinHashDeduplicator.get_stats
MinHashStats ==
  [total_entries |-> Len(minhashes),
   threshold |-> config.similarity_threshold,
   storage |-> IF HAS_REDIS THEN "redis" ELSE "disk"]

\* Deduplicator.get_stats: {} when the backend has no get_stats, as
\* SimpleDeduplicator
get_stats == IF HAS_DATASKETCH THEN MinHashStats ELSE <<>>

GetStats ==
  /\ nops < MaxStatsOps
  /\ last' = Call("get_stats", <<>>, None, Returned(get_stats), NoSaves, FALSE)
  /\ nops' = nops + 1
  /\ UNCHANGED <<config, indexVars, storeVars, envVars, live, passed, added,
                 callers, chunking>>

StatsAdd == AddOf(Texts, MaxStatsOps)
StatsRemove == RemoveWithin(MaxStatsOps)

NextStats == StatsAdd \/ StatsRemove \/ GetStats

SpecStats == Init /\ [][NextStats]_vars

\* -------------------------------------------------------- deduplicate_chunks
MaxChunkCalls == 2
MaxChunks == 2

\* the lists of chunks handed to deduplicate_chunks, each chunk by its text
ChunkLists == UNION {[1..n -> Texts] : n \in 1..MaxChunks}

\* hashlib.md5(text.encode()).hexdigest()[:8], taken as collision free
Md5(text) == ToString(text)

\* f"{source}_{i}_{md5}"
ChunkId(source, i, text) == source \o "_" \o ToString(i) \o "_" \o Md5(text)

\* deduplicate_chunks(chunks, source) up to the loop: the engine is the one
\* get_deduplicator already holds
ChunksCall ==
  /\ nops < MaxChunkCalls
  /\ chunking.pending = <<>>
  /\ \E chunks \in ChunkLists, source \in Sources :
       chunking' = [pending |-> chunks, i |-> 0, source |-> source,
                    filtered |-> <<>>, returned |-> chunking.returned]
  /\ nops' = nops + 1
  /\ UNCHANGED <<config, indexVars, storeVars, envVars, last, live, passed,
                 added, callers>>

\* one iteration of "for i, chunk in enumerate(chunks)"; the last one
\* returns filtered, and an exception of check_and_add ends the call
\* without a return value
ChunksStep ==
  /\ chunking.pending # <<>>
  /\ LET text == Head(chunking.pending)
         source == chunking.source
         doc_id == ChunkId(source, chunking.i, text)
     IN  \E outcome \in CheckOutcomes(text, doc_id, source),
            redisOk \in BOOLEAN, diskOk \in BOOLEAN :
           /\ IF ShouldAdd(outcome)
              THEN /\ AddEffect(text, doc_id, source, redisOk, diskOk)
                   /\ last' = Call("check_and_add", text, doc_id, outcome,
                                   AddSaves(text, redisOk, diskOk), FALSE)
                   /\ live' = LiveAfterAdd(text, doc_id)
                   /\ added' = AddedAfterAdd(text, doc_id)
              ELSE /\ UNCHANGED <<indexVars, storeVars, live, added>>
                   /\ last' = Call("check_and_add", text, doc_id, outcome,
                                   NoSaves, FALSE)
           /\ passed' = passed \cup {text}
           /\ LET filtered == IF outcome.result.action = "skip"
                              THEN chunking.filtered
                              ELSE Append(chunking.filtered, text)
              IN  chunking' =
                    IF outcome.raised
                    THEN [chunking EXCEPT !.pending = <<>>, !.filtered = <<>>]
                    ELSE IF Tail(chunking.pending) = <<>>
                    THEN [chunking EXCEPT !.pending = <<>>, !.filtered = <<>>,
                                          !.returned = @ \o filtered]
                    ELSE [chunking EXCEPT !.pending = Tail(@), !.i = @ + 1,
                                          !.filtered = filtered]
  /\ UNCHANGED <<config, envVars, nops, callers>>

NextChunks == ChunksCall \/ ChunksStep

SpecChunks == Init /\ [][NextChunks]_vars

\* --------------------------------------------- construction with any config
\* DedupConfig is a plain dataclass: a caller can hand over a threshold of
\* -0.1 or 1.5 and a num_perm of 0.
MaxConfigOps == 2

AnyThresholds == Thresholds \cup {-10, 150}
AnyNumPerms == NumPerms \cup {0}

AnyConfigs ==
  [similarity_threshold : AnyThresholds, num_perm : AnyNumPerms,
   min_text_length : MinTextLengths]

\* MinHashLSH(threshold, num_perm) raises ValueError on a threshold outside
\* [0, 1] and on num_perm < 2; nothing else on the way to a Deduplicator
\* looks at the values
ConstructRaises(cfg) ==
  /\ HAS_DATASKETCH
  /\ \/ cfg.similarity_threshold < 0 \/ cfg.similarity_threshold > 100
     \/ cfg.num_perm < 2

\* Deduplicator(config): an exception of the backend's __init__ leaves the
\* process without an engine
ConstructAny(cfg, redisOk, diskOk) ==
  IF ConstructRaises(cfg)
  THEN /\ config' = cfg
       /\ lsh' = NewLSH(cfg.similarity_threshold, cfg.num_perm)
       /\ minhashes' = <<>> /\ metadata' = <<>>
       /\ exact_hashes' = <<>> /\ normalized_hashes' = <<>>
       /\ live' = <<>> /\ passed' = {} /\ added' = <<>>
       /\ last' = Call("construct", <<>>, None, Raised, NoSaves, FALSE)
       /\ UNCHANGED <<storeVars, envVars>>
  ELSE /\ Construct(cfg, redisOk, diskOk)
       /\ last' = Call("construct", <<>>, None, Returned(NoResult), NoSaves,
                       LoadFailed(cfg, redisOk, diskOk))

\* the process holds an engine
EngineExists == ~(last.op = "construct" /\ last.raised)

InitConfig ==
  /\ HAS_DATASKETCH \in BOOLEAN
  /\ HAS_REDIS \in BOOLEAN
  /\ config \in AnyConfigs
  /\ lsh = NewLSH(config.similarity_threshold, config.num_perm)
  /\ minhashes = <<>> /\ metadata = <<>>
  /\ exact_hashes = <<>> /\ normalized_hashes = <<>>
  /\ redis_store = NoSnapshot /\ disk_minhash = NoSnapshot /\ disk_simple = NoFile
  /\ last = Call("construct", <<>>, None,
                 IF ConstructRaises(config) THEN Raised ELSE Returned(NoResult),
                 NoSaves, FALSE)
  /\ live = <<>> /\ passed = {} /\ nops = 0 /\ added = <<>>
  /\ callers = [c \in Threads |-> IdleCaller]
  /\ chunking = NoChunking

ConfigRestart ==
  /\ nops < MaxConfigOps
  /\ \E cfg \in AnyConfigs, redisOk \in BOOLEAN, diskOk \in BOOLEAN :
       ConstructAny(cfg, redisOk, diskOk)
  /\ nops' = nops + 1
  /\ UNCHANGED <<callers, chunking>>

ConfigCheck == EngineExists /\ CheckOf(Texts, MaxConfigOps)
ConfigAdd == EngineExists /\ AddOf(Texts, MaxConfigOps)

NextConfig == ConfigRestart \/ ConfigCheck \/ ConfigAdd

SpecConfig == InitConfig /\ [][NextConfig]_vars

\* ------------------------------------------------------------------ claims
IsLong(text) == LenOf[text] >= config.min_text_length

CheckCalled == last.op = "check"

\* the ids the LSH query returns for text, and the agreement of text's
\* signature with the signature stored for a candidate
CandidatesOf(text) == LshQuery(lsh, SigOf[text][config.num_perm])
SimilarityTo(text, c) == Jaccard(SigOf[text][config.num_perm], DictGet(minhashes, c))
Scorable(text) ==
  \A c \in CandidatesOf(text) :
    DictHas(minhashes, c) /\ Len(DictGet(minhashes, c)) = config.num_perm
BestOf(text) ==
  CHOOSE b \in {SimilarityTo(text, c) : c \in CandidatesOf(text)} :
    \A c \in CandidatesOf(text) : SimilarityTo(text, c) <= b

DuplicateOf(res, action, best, text) ==
  /\ res.is_duplicate
  /\ res.action = action
  /\ res.similarity_score = best
  /\ res.matched_id \in {c \in CandidatesOf(text) : SimilarityTo(text, c) = best}

\* C1: on the MinHash backend a check of a text of at least min_text_length
\* answers by the best similarity among the LSH candidates: 'ingest' without
\* candidates or below the threshold, 'reference' from the threshold up to
\* 0.95, 'skip' above 0.95, matched to a candidate of that similarity; for
\* every threshold, 0 included.
C1_DecisionPolicy ==
  (HAS_DATASKETCH /\ CheckCalled /\ IsLong(last.text) /\ Scorable(last.text)) =>
    /\ ~last.raised
    /\ IF CandidatesOf(last.text) = {}
       THEN last.result = IngestResult
       ELSE IF BestOf(last.text) < config.similarity_threshold
       THEN last.result = IngestResult
       ELSE IF BestOf(last.text) <= 95
       THEN DuplicateOf(last.result, "reference", BestOf(last.text), last.text)
       ELSE DuplicateOf(last.result, "skip", BestOf(last.text), last.text)

\* C2: once text is added under id and id is neither removed nor re-added,
\* a check of the same text under another id is a duplicate, 'skip', 1.0.
C2_RoundTrip ==
  (CheckCalled /\ IsLong(last.text)
   /\ \E id \in DOMAIN live : id # last.doc_id /\ live[id] = last.text) =>
    /\ ~last.raised
    /\ last.result.is_duplicate
    /\ last.result.action = "skip"
    /\ last.result.similarity_score = 100

\* the index holds one entry, the one add(text, doc_id) made
SoleEntry(text, doc_id) ==
  /\ doc_id \in DOMAIN live /\ live[doc_id] = text
  /\ IF HAS_DATASKETCH
     THEN DictKeys(minhashes) = {doc_id} /\ DOMAIN lsh.keys = {doc_id}
     ELSE /\ exact_hashes = (compute_hash(text) :> doc_id)
          /\ normalized_hashes = (compute_hash(NormOf[text]) :> doc_id)

NeverDuplicate(text) ==
  \A id \in DocIds, source \in Sources :
    \A outcome \in CheckOutcomes(text, id, source) : ~outcome.result.is_duplicate

\* C3: when text is indexed only under doc_id and nothing else is indexed,
\* after remove(doc_id) a check of text is not a duplicate, in either backend.
C3_Removal ==
  [][\A text \in Texts :
       (last'.op = "remove" /\ SoleEntry(text, last'.doc_id))
         => NeverDuplicate(text)']_vars

\* C4: a check of a text shorter than min_text_length returns 'ingest' with
\* is_duplicate false, score 0 and no matched id, in both backends, whatever
\* was handed to add or check_and_add before.
C4_ShortTextBypass ==
  (CheckCalled /\ ~IsLong(last.text)) => (~last.raised /\ last.result = IngestResult)

C4_Witness ==
  /\ CheckCalled /\ ~IsLong(last.text) /\ last.text \in passed
  /\ last.result = IngestResult
  /\ \E t \in passed : IsLong(t) /\ NormOf[t] = NormOf[last.text]

\* C5: check_and_add returns a result check gives on the state before the
\* call; when that result is a duplicate the index and the stores are the
\* same after the call and no save was attempted.
C5_CheckAndAddFrame ==
  [][last'.op = "check_and_add" =>
       /\ \E source \in Sources :
            [raised |-> last'.raised, result |-> last'.result]
              \in CheckOutcomes(last'.text, last'.doc_id, source)
       /\ (last'.raised \/ last'.result.is_duplicate) =>
            (UNCHANGED <<indexVars, storeVars>> /\ last'.saves = NoSaves)]_vars

C5_Witness ==
  /\ last.op = "check_and_add" /\ last.result.is_duplicate
  /\ last.result.action = "reference"

\* C6: on the MinHash backend, after add(t1, d) and then add(t2, d) with
\* texts that share no shingle, the index holds d under t2's signature only:
\* d is in no bucket of t1's signature, a check of t2 is a duplicate matched
\* to d, and a check of t1 does not match d.
C6_ReAddOverwrites ==
  [][\A t1, t2 \in Texts :
       (/\ HAS_DATASKETCH
        /\ last'.op = "add" /\ last'.text = t2 /\ IsLong(t2)
        /\ last'.doc_id \in DOMAIN live /\ live[last'.doc_id] = t1
        /\ ShinglesOf[t1] \cap ShinglesOf[t2] = {})
       => /\ last'.doc_id \notin CandidatesOf(t1)'
          /\ \A id \in DocIds, source \in Sources :
               /\ \A outcome \in CheckOutcomes(t2, id, source)' :
                    outcome.result.is_duplicate
               /\ \E outcome \in CheckOutcomes(t2, id, source)' :
                    outcome.result.matched_id = last'.doc_id
               /\ \A outcome \in CheckOutcomes(t1, id, source)' :
                    outcome.result.matched_id # last'.doc_id]_vars

Mutated == last.op \in {"add", "remove", "check_and_add"} /\ last.saves # NoSaves
WriteAccepted == last.saves.redis = "ok" \/ last.saves.disk = "ok"
WritesFailed == last.saves # NoSaves /\ ~WriteAccepted

\* what a construction with this configuration loads while the stores work
Loadable ==
  IF HAS_DATASKETCH
  THEN LET e == MinHashLoad(config, TRUE, TRUE) IN
       [signatures |-> e.minhashes, metadata |-> e.metadata]
  ELSE LET e == SimpleLoad(TRUE) IN
       [signatures |-> e.exact, metadata |-> e.normalized]

InMemory ==
  IF HAS_DATASKETCH
  THEN [signatures |-> minhashes, metadata |-> metadata]
  ELSE [signatures |-> exact_hashes, metadata |-> normalized_hashes]

\* C7: after an add or remove that changed the index and whose write a store
\* accepted, the snapshot the next construction loads is the in-memory index.
C7_PersistedAfterMutation ==
  (Mutated /\ WriteAccepted) => Loadable = InMemory

AlwaysDuplicate(text) ==
  \A id \in DocIds, source \in Sources :
    \A outcome \in CheckOutcomes(text, id, source) : outcome.result.is_duplicate

\* C8: when every write of an add or check_and_add fails, the call returns,
\* a following check of the text reports a duplicate, and the next mutating
\* call saves the whole current index.
C8_SaveFailureAbsorbed ==
  /\ []((last.op \in {"add", "check_and_add"} /\ WritesFailed) =>
          (~last.raised /\ AlwaysDuplicate(last.text)))
  /\ [][(Mutated' /\ WriteAccepted') =>
          \/ redis_store' = [present |-> TRUE, minhashes |-> minhashes',
                             metadata |-> metadata']
          \/ disk_minhash' = [present |-> TRUE, minhashes |-> minhashes',
                              metadata |-> metadata']
          \/ disk_simple' = [present |-> TRUE, exact |-> exact_hashes',
                             normalized |-> normalized_hashes']]_vars

IndexEmpty ==
  /\ minhashes = <<>> /\ metadata = <<>>
  /\ DOMAIN lsh.keys = {} /\ \A i \in 1..lsh.b : DOMAIN lsh.hashtables[i] = {}
  /\ exact_hashes = <<>> /\ normalized_hashes = <<>>

\* C9: when loading fails at construction (a store or snapshot that cannot be
\* read, a rebuild of the buckets that stops partway) and no source is loaded
\* to the end, the engine starts with an empty index: no signatures, no
\* metadata, no bucket members.
C9_LoadFailureEmpty ==
  (last.op = "construct" /\ last.load_failed) => IndexEmpty

Answers(text) ==
  {[is_duplicate |-> o.result.is_duplicate, action |-> o.result.action,
    matched_id |-> o.result.matched_id, raised |-> o.raised]
     : o \in UNION {CheckOutcomes(text, id, source) : id \in DocIds, source \in Sources}}

\* C10: an engine constructed right after a successful save, with the same
\* configuration and a load that reads its source to the end, answers every
\* check as the engine that saved did, whichever store took the save.
C10_RestartEquivalence ==
  [][(/\ last'.op = "construct" /\ ~last'.load_failed /\ config' = config
      /\ Mutated /\ WriteAccepted)
       => \A text \in Texts : Answers(text)' = Answers(text)]_vars

\* the index holds an entry stored under id
StoredUnder(id) ==
  IF HAS_DATASKETCH
  THEN DictHas(minhashes, id) /\ id \in DOMAIN lsh.keys
  ELSE \E h \in DOMAIN exact_hashes : exact_hashes[h] = id

\* C11: two threads on the shared engine that each ran check_and_add with the
\* same text (of at least min_text_length) under different ids, on an index
\* that did not hold it: one call returned 'ingest' and the other 'skip', as
\* if check and insert were one step, and the added entry is in the index.
C11_SerializedCheckAndAdd ==
  \A a, b \in Threads :
    (/\ a # b /\ callers[a].pc = "returned" /\ callers[b].pc = "returned"
     /\ callers[a].text = callers[b].text /\ IsLong(callers[a].text)
     /\ callers[a].doc_id # callers[b].doc_id)
    => /\ ~callers[a].raised /\ ~callers[b].raised
       /\ {callers[a].result.action, callers[b].result.action} = {"ingest", "skip"}
       /\ \A c \in {a, b} :
            callers[c].result.action = "ingest" => StoredUnder(callers[c].doc_id)

\* C12: check returns a DedupResult and never raises, in every engine state:
\* after a failed or partial load, after a snapshot built with another
\* num_perm, after re-adds and removes.
C12_CheckFailsOpen ==
  (last.op \in {"check", "check_and_add"}) =>
    (~last.raised /\ last.result.action \in {"ingest", "reference", "skip"})

\* DedupConfig values the spec allows
ValidConfig(cfg) ==
  /\ cfg.similarity_threshold >= 0 /\ cfg.similarity_threshold <= 100
  /\ cfg.num_perm > 0

\* C13: a construction with a threshold outside [0,1] or num_perm <= 0 fails,
\* in either backend: no engine that takes check or add calls has such a
\* configuration.
C13_ConfigFailsFast ==
  ~ValidConfig(config) => (last.op = "construct" /\ last.raised)

\* skip cutoffs a caller asks for: the default 0.95 and 1.0 ("never skip").
\* DedupConfig has no field for them; check compares with the literal 0.95.
SkipCutoffs == {95, 100}

\* C14: whatever skip cutoff c the caller configures, a duplicate result of
\* the MinHash backend is 'skip' exactly when its similarity is above c and
\* 'reference' otherwise.
C14_SkipCutoffConfigured ==
  \A c \in SkipCutoffs :
    (HAS_DATASKETCH /\ CheckCalled /\ ~last.raised /\ last.result.is_duplicate) =>
      /\ last.result.action \in {"skip", "reference"}
      /\ last.result.action = "skip" <=> last.result.similarity_score > c

\* the texts the adds of this engine stored
AddedTexts == {added[i].text : i \in 1..Len(added)}

\* every entry of the fallback index was stored by an add of this engine
OwnIndex ==
  /\ ~HAS_DATASKETCH
  /\ DOMAIN exact_hashes = {compute_hash(t) : t \in AddedTexts}
  /\ DOMAIN normalized_hashes = {compute_hash(NormOf[t]) : t \in AddedTexts}

\* the id of the most recent add of one of the texts in S
LatestId(S) ==
  LET I == {i \in 1..Len(added) : added[i].text \in S}
  IN  added[CHOOSE i \in I : \A j \in I : j <= i].doc_id

\* C15: SimpleDeduplicator.check of a text of at least min_text_length is
\* (duplicate, 1.0, 'skip') exactly when the raw text was added before,
\* otherwise (duplicate, 0.95, 'reference') exactly when its normalized form
\* is that of an added text, otherwise (not duplicate, 0, 'ingest');
\* matched_id is the id of the most recent add that stored the matching hash.
C15_ExactHashScoring ==
  (CheckCalled /\ IsLong(last.text) /\ OwnIndex) =>
    LET same == {last.text} \cap AddedTexts
        norm == {u \in AddedTexts : NormOf[u] = NormOf[last.text]}
    IN  /\ ~last.raised
        /\ IF same # {}
           THEN /\ last.result.is_duplicate
                /\ last.result.similarity_score = 100
                /\ last.result.action = "skip"
                /\ last.result.matched_id = LatestId(same)
           ELSE IF norm # {}
           THEN /\ last.result.is_duplicate
                /\ last.result.similarity_score = 95
                /\ last.result.action = "reference"
                /\ last.result.matched_id = LatestId(norm)
           ELSE last.result = IngestResult

C15_Witness ==
  /\ CheckCalled /\ IsLong(last.text) /\ OwnIndex
  /\ last.result.action = "reference"
  /\ \E i, j \in 1..Len(added) :
       /\ i < j /\ added[i].doc_id # added[j].doc_id
       /\ NormOf[added[i].text] = NormOf[last.text]
       /\ NormOf[added[j].text] = NormOf[last.text]
       /\ last.result.matched_id = added[j].doc_id

\* C16: over the deduplicate_chunks calls on the shared engine no two
\* returned chunks have the same text of at least min_text_length, also when
\* the first of them was kept as 'reference'.
C16_NoTextKeptTwice ==
  \A i, j \in 1..Len(chunking.returned) :
    (i < j /\ chunking.returned[i] = chunking.returned[j])
      => ~IsLong(chunking.returned[i])

\* the hashes of table that map to id
HashesOf(table, id) == {h \in DOMAIN table : table[h] = id}

\* C17: every id added to the engine and not removed has exactly one stored
\* entry, that of its most recent add: one signature and one metadata record
\* on the MinHash backend; on the fallback backend the hashes of the text of
\* its latest add and no hash of a text it held before.
C17_OneEntryPerDocId ==
  \A id \in DOMAIN live :
    IF HAS_DATASKETCH
    THEN /\ Cardinality({i \in 1..Len(minhashes) : minhashes[i].k = id}) = 1
         /\ DictGet(minhashes, id) = SigOf[live[id]][config.num_perm]
         /\ id \in DOMAIN metadata
         /\ metadata[id].text_preview = MetaOf(live[id], "").text_preview
    ELSE /\ HashesOf(exact_hashes, id) = {compute_hash(live[id])}
         /\ HashesOf(normalized_hashes, id) = {compute_hash(NormOf[live[id]])}

\* C18: get_stats through the facade returns, in both backends and after any
\* adds and removes, a record with the number of ids added and not removed,
\* the configured threshold and the backend in use (the code's field for it
\* is 'storage').
C18_StatsRecord ==
  last.op = "get_stats" =>
    /\ ~last.raised
    /\ {"total_entries", "threshold", "storage"} \subseteq DOMAIN last.result
    /\ last.result.total_entries = Cardinality(DOMAIN live)
    /\ last.result.threshold = config.similarity_threshold

\* id is in no structure of the index
Absent(id) ==
  IF HAS_DATASKETCH
  THEN /\ ~DictHas(minhashes, id) /\ id \notin DOMAIN metadata
       /\ id \notin DOMAIN lsh.keys
       /\ \A i \in 1..lsh.b : \A H \in DOMAIN lsh.hashtables[i] :
            id \notin lsh.hashtables[i][H]
  ELSE HashesOf(exact_hashes, id) = {} /\ HashesOf(normalized_hashes, id) = {}

\* C19: remove(doc_id) of an id that is not in the index raises nothing,
\* leaves signatures, metadata and buckets as they are and writes to no
\* store.
C19_RemoveAbsentNoOp ==
  [][\A id \in DocIds :
       (last'.op = "remove" /\ last'.doc_id = id /\ Absent(id))
         => /\ ~last'.raised
            /\ UNCHANGED <<indexVars, storeVars>>
            /\ last'.saves = NoSaves]_vars

C19_Witness ==
  /\ HAS_DATASKETCH /\ last.op = "remove" /\ ~last.raised
  /\ Absent(last.doc_id) /\ last.saves = NoSaves
  /\ minhashes # <<>> /\ DOMAIN lsh.keys = DictKeys(minhashes)

\* C20: normalize_text is idempotent: normalizing the value normalize_text
\* returned gives that value again, for every input.
C20_NormalizeIdempotent ==
  last.op = "normalize_again" => last.result = last.text

\* the candidates check scores: ids the LSH query returns that have a signature
Candidates(text) ==
  {id \in LshQuery(lsh, SigOf[text][config.num_perm]) : DictHas(minhashes, id)}

\* the position of an id in the insertion order of the signature table
InsertedAt(id) == CHOOSE i \in 1..Len(minhashes) : minhashes[i].k = id

\* the candidates with the maximum similarity to the text
BestCandidates(text) ==
  LET score(id) == Jaccard(SigOf[text][config.num_perm], DictGet(minhashes, id)) IN
  {id \in Candidates(text) : \A o \in Candidates(text) : score(o) <= score(id)}

\* C21: when several candidates have the same maximum similarity to the
\* query, the matched_id check returns is the candidate inserted earliest,
\* whatever order the LSH query returned the candidates in.
C21_TieEarliestInserted ==
  [][(/\ HAS_DATASKETCH /\ last'.op = "check" /\ ~last'.raised
      /\ last'.result.is_duplicate)
       => /\ last'.result.matched_id \in BestCandidates(last'.text)
          /\ \A o \in BestCandidates(last'.text) :
               InsertedAt(last'.result.matched_id) <= InsertedAt(o)]_vars

\* the ids held in the buckets of the LSH
BucketIds ==
  UNION {UNION {lsh.hashtables[i][H] : H \in DOMAIN lsh.hashtables[i]} : i \in 1..lsh.b}

\* C22: on the MinHash backend, in every state reachable by construction
\* (failed and partial loads included) followed by add, remove and
\* check_and_add, the ids in the LSH buckets, the keys of the signature table
\* and the keys of the metadata table are the same set, and each id sits in
\* the buckets under the signature stored for it in the signature table.
C22_IndexConsistent ==
  HAS_DATASKETCH =>
    /\ BucketIds = DictKeys(minhashes)
    /\ DOMAIN lsh.keys = DictKeys(minhashes)
    /\ DOMAIN metadata = DictKeys(minhashes)
    /\ \A id \in DOMAIN lsh.keys :
         /\ DictHas(minhashes, id)
         /\ Len(DictGet(minhashes, id)) = lsh.h
         /\ lsh.keys[id] = BandsOf(lsh, DictGet(minhashes, id))
         /\ \A i \in 1..lsh.b :
              /\ lsh.keys[id][i] \in DOMAIN lsh.hashtables[i]
              /\ id \in lsh.hashtables[i][lsh.keys[id][i]]

\* the ids the index of the backend in use holds
IndexedIds ==
  IF HAS_DATASKETCH THEN DictKeys(minhashes) \cap BucketIds
  ELSE {exact_hashes[h] : h \in DOMAIN exact_hashes}
         \cup {normalized_hashes[h] : h \in DOMAIN normalized_hashes}

\* C23: every DedupResult returned by check or check_and_add, in either
\* backend, is well formed: is_duplicate is true exactly when action is
\* 'skip' or 'reference'; matched_id is set exactly when is_duplicate is true
\* and then names an entry currently in the index; similarity_score is in
\* [0,1] and is 0 whenever is_duplicate is false; 'skip' implies
\* similarity_score > 0.95.
C23_ResultWellFormed ==
  (last.op \in {"check", "check_and_add"} /\ ~last.raised) =>
    LET r == last.result IN
    /\ r.action \in {"ingest", "skip", "reference"}
    /\ r.is_duplicate <=> r.action \in {"skip", "reference"}
    /\ r.is_duplicate <=> r.matched_id # None
    /\ r.is_duplicate => r.matched_id \in IndexedIds
    /\ r.similarity_score >= 0 /\ r.similarity_score <= 100
    /\ ~r.is_duplicate => r.similarity_score = 0
    /\ r.action = "skip" => r.similarity_score > 95

\* a check on the MinHash backend returned a near-duplicate below the skip
\* cutoff, matched to an indexed id
C23_Witness ==
  /\ HAS_DATASKETCH
  /\ last.op \in {"check", "check_and_add"} /\ ~last.raised
  /\ last.result.is_duplicate /\ last.result.action = "reference"
  /\ last.result.similarity_score < 95 /\ last.result.similarity_score > 0
  /\ last.result.matched_id \in IndexedIds

====
